---- MODULE Spec2Model ----
(***************************************************************************)
(* Model of resque-autoscaler (src/main.go): a decision task that samples  *)
(* the Resque backlog, smooths it over a trailing window, clamps it to the *)
(* configured bounds and gates it by the scale-up / scale-down delays, and *)
(* an actuation task that receives the emitted counts over an unbuffered   *)
(* channel and posts them to the fleet-management API.                     *)
(*                                                                         *)
(* Time is a discrete clock.  float64 arithmetic of average() and of the   *)
(* division by WorkersPerInstance is modelled by exact fractions: for the  *)
(* bounded integers of the model every intermediate quotient is either an  *)
(* integer (represented exactly) or at a distance of at least              *)
(* 1/(len*workers) from one, so math.Ceil of the rounded value equals the  *)
(* ceiling of the exact value.                                             *)
(***************************************************************************)
EXTENDS Integers, Sequences, FiniteSets, TLC

(* ------------------------------ bounds --------------------------------- *)
\* last instant of the discrete clock
MaxTime == 2
\* greatest length LLen reports for a queue
MaxQueueLen == 3
\* greatest fleet size the fleet-management API reports at startup
MaxFleet == 4
\* greatest NUM_SAMPLES among the configurations explored
MaxNumSamples == 2

\* worker ids and queue names that the backend may list
WorkerIds == {"w1"}
QueueIds  == {"q1"}

(* ---------------------------- configuration ---------------------------- *)
\* AutoscalerConfig: the configurations explored (durations in clock units)
\* (a shorter scale-up than scale-down delay, as the defaults, and the reverse)
Configs ==
    { c \in [ MinInstances       : {2},
              MaxInstances       : {3},
              WorkersPerInstance : {1, 2},
              Interval           : {1},
              NumSamples         : {1, MaxNumSamples},
              ScaleUpDelay       : {1, 2},
              ScaleDownDelay     : {1, 2} ] :
        c.ScaleUpDelay # c.ScaleDownDelay }

\* the greatest delay of any configuration
MaxDelay == 2

\* The zero value of time.Time (January 1, year 1 UTC): further in the past
\* than any time.Duration (at most about 292 years) can bridge from the
\* moment the process starts (clock 0).
ZeroTime == 0 - (MaxDelay + 1)

VARIABLES
    config,            \* autoscaler.config
    instances,         \* autoscaler.instances
    lastScaleTime,     \* autoscaler.lastScaleTime
    samples,           \* autoscaler.samples
    clock,             \* the wall clock read by time.Now()
    dpc,               \* position of calculateInstancesLoop
    n,                 \* local n of calculateInstancesLoop
    desiredInstances,  \* local desiredInstances of calculateDesiredInstances
    now,               \* local now of calculateDesiredInstances
    ready,             \* whether the last calculateDesiredInstances passed line 123
    wakeAt,            \* instant at which time.Sleep may return
    ticks,             \* number of calls of calculateDesiredInstances so far
    pushed,            \* every sample appended so far, in order
    apc,               \* position of scaleWorkersLoop
    held,              \* local desiredInstances of scaleWorkersLoop
    emitted,           \* counts whose channel send has completed, in order
    applied,           \* counts passed to the POST .../scale call, in order
    fleet,             \* the fleet size held by the fleet-management API
    readOk,            \* whether the startup GET returned status 200
    lastResult,        \* how the latest POST .../scale call ended ("none" before any)
    emittedAt,         \* the clock at each completed channel send, in order
    probe              \* one run of the sampler: the backend, the failing queries, the result

vars == << config, instances, lastScaleTime, samples, clock, dpc, n,
           desiredInstances, now, ready, wakeAt, ticks, pushed, apc, held,
           emitted, applied, fleet, readOk, lastResult, emittedAt, probe >>

decisionVars == << instances, lastScaleTime, samples, dpc, n,
                   desiredInstances, now, ready, wakeAt, ticks, pushed >>
actuationVars == << apc, held, applied, fleet, lastResult >>

(* ------------------------------ helpers -------------------------------- *)
RECURSIVE SumSeq(_)
SumSeq(xs) == IF xs = << >> THEN 0 ELSE Head(xs) + SumSeq(Tail(xs))

RECURSIVE SumOver(_, _)
SumOver(f, S) ==
    IF S = {} THEN 0
    ELSE LET x == CHOOSE y \in S : TRUE
         IN  f[x] + SumOver(f, S \ {x})

\* math.Ceil of the fraction num/den, num >= 0, den > 0
Ceil(num, den) == (num + den - 1) \div den

\* the mean in integer arithmetic: sum / len(xs) truncated
averageTruncated(xs) == [num |-> SumSeq(xs) \div Len(xs), den |-> 1]

\* average(xs): float64(sum) / float64(len(xs)), kept as an exact fraction
average(xs) == [num |-> SumSeq(xs), den |-> Len(xs)]

\* getInstanceCount without the test of line 70
getInstanceCountAnyCount(cfg, ok, count) ==
    IF ~ok THEN cfg.MinInstances ELSE count

\* getInstanceCount(): ok = the GET succeeded with status 200,
\* count = serviceDetails.numInstances of the response (0 when absent)
getInstanceCount(cfg, ok, count) ==
    IF ~ok THEN cfg.MinInstances
    ELSE IF count > 0 THEN count
    ELSE cfg.MinInstances

\* countActiveJobs taking every Get without redis.Nil for a present key
countActiveJobsCountsErrors(smembers, get) ==
    LET workers == IF smembers.err THEN {} ELSE smembers.members
    IN  Cardinality({w \in workers : get[w] # "nil"})

\* countActiveJobs(): smembers = [err, members] of SMembers resque:workers,
\* get[w] = outcome of Get resque:worker:w: "ok", "nil" (redis.Nil) or "err"
countActiveJobs(smembers, get) ==
    LET workers == IF smembers.err THEN {} ELSE smembers.members
    IN  Cardinality({w \in workers : get[w] = "ok"})

\* countPendingJobs(): smembers = [err, members] of SMembers resque:queues,
\* llen[q] = [err, len] of LLen resque:queue:q (len is 0 on an error)
countPendingJobs(smembers, llen) ==
    LET queues == IF smembers.err THEN {} ELSE smembers.members
        val == [q \in queues |-> IF llen[q].err THEN 0 ELSE llen[q].len]
    IN  SumOver(val, queues)

\* the outcomes the backend can give to one tick's queries
SMembersResults(ids) == [err : BOOLEAN, members : SUBSET ids]
GetResults == [WorkerIds -> {"ok", "nil", "err"}]
LLenResults == [QueueIds -> [err : BOOLEAN, len : 0..MaxQueueLen]]

\* the backend at one tick: the registered workers, the workers whose lease
\* key resque:worker:<id> is present, the registered queues, their lengths
Backends ==
    [ workers : SUBSET WorkerIds, leased : SUBSET WorkerIds,
      queues : SUBSET QueueIds, qlen : [QueueIds -> 0..MaxQueueLen] ]

\* the queries that fail at one tick
FailurePatterns ==
    [ workersErr : BOOLEAN, getErr : SUBSET WorkerIds,
      queuesErr : BOOLEAN, llenErr : SUBSET QueueIds ]

\* what SMembers(...).Result() gives: no members with an error
SMembersOf(err, members) ==
    [err |-> err, members |-> IF err THEN {} ELSE members]

\* what Get(resque:worker:w).Result() gives for each worker
GetOf(b, f) ==
    [w \in WorkerIds |->
        IF w \in f.getErr THEN "err"
        ELSE IF w \in b.leased THEN "ok" ELSE "nil"]

\* what LLen(resque:queue:q).Result() gives for each queue
LLenOf(b, f) ==
    [q \in QueueIds |->
        IF q \in f.llenErr THEN [err |-> TRUE, len |-> 0]
        ELSE [err |-> FALSE, len |-> b.qlen[q]]]

\* line 117: jobs := countActiveJobs() + countPendingJobs() on backend b
\* with the queries of f failing
sampleOf(b, f) ==
    countActiveJobs(SMembersOf(f.workersErr, b.workers), GetOf(b, f))
      + countPendingJobs(SMembersOf(f.queuesErr, b.queues), LLenOf(b, f))

\* line 117: the values countActiveJobs() + countPendingJobs() can take
Samples ==
    { countActiveJobs(wres, get) + countPendingJobs(qres, llen) :
        wres \in SMembersResults(WorkerIds), get \in GetResults,
        qres \in SMembersResults(QueueIds), llen \in LLenResults }

\* clamp without the upper bound of lines 131-133
clampNoMax(cfg, d) ==
    IF d < cfg.MinInstances THEN cfg.MinInstances ELSE d

\* lines 131-136: the clamp to [MinInstances, MaxInstances]
clamp(cfg, d) ==
    LET d1 == IF d > cfg.MaxInstances THEN cfg.MaxInstances ELSE d
    IN  IF d1 < cfg.MinInstances THEN cfg.MinInstances ELSE d1

\* lines 129-136: the desired count of a full window
desired(cfg, xs) ==
    LET avgNumJobs == average(xs)
    IN  clamp(cfg, Ceil(avgNumJobs.num, avgNumJobs.den * cfg.WorkersPerInstance))

\* t.After(u)
After(t, u) == t > u

\* the gate without the delay test of line 145
gateNoDownDelay(cfg, d, cur, last, t) ==
    IF d > cur /\ After(t, last + cfg.ScaleUpDelay) THEN d
    ELSE IF d < cur THEN d
    ELSE cur

\* the gate as if lastScaleTime had been set to the time of the process start
\* (clock 0) instead of being left at the zero time
gateCountsFromStart(cfg, d, cur, last, t) ==
    LET l == IF last < 0 THEN 0 ELSE last
    IN  IF d > cur /\ After(t, l + cfg.ScaleUpDelay) THEN d
        ELSE IF d < cur /\ After(t, l + cfg.ScaleDownDelay) THEN d
        ELSE cur

\* a gate that only ever scales up
gateUpOnly(cfg, d, cur, last, t) ==
    IF d > cur /\ After(t, last + cfg.ScaleUpDelay) THEN d
    ELSE cur

\* lines 138-149: the hysteresis gate; the value calculateDesiredInstances returns
gate(cfg, d, cur, last, t) ==
    IF d > cur /\ After(t, last + cfg.ScaleUpDelay) THEN d
    ELSE IF d < cur /\ After(t, last + cfg.ScaleDownDelay) THEN d
    ELSE cur

\* the test of line 121 off by one
notEnoughOffByOne(cfg, xs) == Len(xs) <= cfg.NumSamples

\* line 121: not enough samples collected
notEnough(cfg, xs) == Len(xs) < cfg.NumSamples

\* the window evicting its newest instead of its oldest entry
windowDropNewest(cfg, xs, jobs) ==
    LET app == Append(xs, jobs)
    IN  IF notEnough(cfg, app) THEN app
        ELSE IF Len(app) > cfg.NumSamples THEN SubSeq(app, 1, Len(app) - 1)
        ELSE app

\* lines 118-127: the window after appending jobs
window(cfg, xs, jobs) ==
    LET app == Append(xs, jobs)
    IN  IF notEnough(cfg, app) THEN app
        ELSE IF Len(app) > cfg.NumSamples THEN Tail(app)
        ELSE app

\* the loop without the test of line 107
emitsAlways(res, cur) == TRUE

\* line 107: whether the loop sends the value calculateDesiredInstances returned
emits(res, cur) == res # cur

\* the sampler has not been run on its own
NoProbe == [ran |-> FALSE]

(* ------------------------------- Init ---------------------------------- *)
Init ==
    /\ config \in Configs
    /\ fleet \in 0..MaxFleet
    /\ readOk \in BOOLEAN
    /\ instances = getInstanceCount(config, readOk, fleet)
    /\ lastScaleTime = ZeroTime
    /\ samples = << >>
    /\ clock = 0
    /\ dpc = "calc"
    /\ n = instances
    /\ desiredInstances = instances
    /\ now = 0
    /\ ready = FALSE
    /\ wakeAt = 0
    /\ ticks = 0
    /\ pushed = << >>
    /\ apc = "recv"
    /\ held = 0
    /\ emitted = << >>
    /\ applied = << >>
    /\ lastResult = "none"
    /\ emittedAt = << >>
    /\ probe = NoProbe

(* --------------------------- decision task ----------------------------- *)
\* calculateDesiredInstances() followed by the test of line 107
Calc ==
    /\ dpc = "calc"
    /\ \E jobs \in Samples :
          LET app  == Append(samples, jobs)
              win  == window(config, samples, jobs)
              rdy  == ~notEnough(config, app)
              d    == IF rdy THEN desired(config, win) ELSE desiredInstances
              res  == IF rdy THEN gate(config, d, instances, lastScaleTime, clock)
                      ELSE instances
          IN  /\ samples' = win
              /\ pushed' = Append(pushed, jobs)
              /\ ready' = rdy
              /\ desiredInstances' = d
              /\ now' = IF rdy THEN clock ELSE now
              /\ n' = res
              /\ IF emits(res, instances)
                 THEN dpc' = "send" /\ wakeAt' = wakeAt
                 ELSE dpc' = "sleep" /\ wakeAt' = clock + config.Interval
    /\ ticks' = ticks + 1
    /\ UNCHANGED << config, instances, lastScaleTime, clock, readOk, emitted,
                    emittedAt, probe >>
    /\ UNCHANGED actuationVars

\* a send that does not wait for the receiver: the count is lost when the
\* actuation task is busy
HandoffNonBlocking ==
    /\ dpc = "send"
    /\ dpc' = "record"
    /\ emitted' = Append(emitted, n)
    /\ emittedAt' = Append(emittedAt, clock)
    /\ IF apc = "recv"
       THEN apc' = "got" /\ held' = n
       ELSE UNCHANGED << apc, held >>
    /\ UNCHANGED << config, instances, lastScaleTime, samples, clock, n,
                    desiredInstances, now, ready, wakeAt, ticks, pushed,
                    applied, fleet, readOk, lastResult, probe >>

\* c <- n completing together with desiredInstances := <-c (unbuffered channel)
Handoff ==
    /\ dpc = "send"
    /\ apc = "recv"
    /\ dpc' = "record"
    /\ apc' = "got"
    /\ held' = n
    /\ emitted' = Append(emitted, n)
    /\ emittedAt' = Append(emittedAt, clock)
    /\ UNCHANGED << config, instances, lastScaleTime, samples, clock, n,
                    desiredInstances, now, ready, wakeAt, ticks, pushed,
                    applied, fleet, readOk, lastResult, probe >>

\* lines 109-112 run only once the resize call has returned, as if
\* updateNumInstances were called from the decision loop
RecordScaleAfterResize ==
    /\ dpc = "record"
    /\ apc = "recv"
    /\ instances' = n
    /\ lastScaleTime' = clock
    /\ wakeAt' = clock + config.Interval
    /\ dpc' = "sleep"
    /\ UNCHANGED << config, samples, clock, n, desiredInstances, now, ready,
                    ticks, pushed, emitted, readOk, emittedAt, probe >>
    /\ UNCHANGED actuationVars

\* line 110 storing the now of calculateDesiredInstances instead of reading
\* the clock after the send
RecordScaleStampsDecisionTime ==
    /\ dpc = "record"
    /\ instances' = n
    /\ lastScaleTime' = now
    /\ wakeAt' = clock + config.Interval
    /\ dpc' = "sleep"
    /\ UNCHANGED << config, samples, clock, n, desiredInstances, now, ready,
                    ticks, pushed, emitted, readOk, emittedAt, probe >>
    /\ UNCHANGED actuationVars

\* the loop without the assignment of line 109
RecordScaleNoUpdate ==
    /\ dpc = "record"
    /\ lastScaleTime' = clock
    /\ wakeAt' = clock + config.Interval
    /\ dpc' = "sleep"
    /\ UNCHANGED << config, instances, samples, clock, n, desiredInstances,
                    now, ready, ticks, pushed, emitted, readOk, emittedAt,
                    probe >>
    /\ UNCHANGED actuationVars

\* lines 109-112: instances = n; lastScaleTime = time.Now(); then time.Sleep
RecordScale ==
    /\ dpc = "record"
    /\ instances' = n
    /\ lastScaleTime' = clock
    /\ wakeAt' = clock + config.Interval
    /\ dpc' = "sleep"
    /\ UNCHANGED << config, samples, clock, n, desiredInstances, now, ready,
                    ticks, pushed, emitted, readOk, emittedAt, probe >>
    /\ UNCHANGED actuationVars

\* time.Sleep(Interval) returning
Wake ==
    /\ dpc = "sleep"
    /\ clock >= wakeAt
    /\ dpc' = "calc"
    /\ UNCHANGED << config, instances, lastScaleTime, samples, clock, n,
                    desiredInstances, now, ready, wakeAt, ticks, pushed,
                    emitted, readOk, emittedAt, probe >>
    /\ UNCHANGED actuationVars

(* --------------------------- actuation task ---------------------------- *)
\* updateNumInstances(n) issuing the POST .../scale request
CallResize ==
    /\ apc = "got"
    /\ apc' = "calling"
    /\ applied' = Append(applied, held)
    /\ UNCHANGED << config, clock, held, fleet, emitted, readOk, lastResult,
                    emittedAt, probe >>
    /\ UNCHANGED decisionVars

\* the actuation task recording an accepted count in autoscaler.instances
ResizeReturnsSetsInstances ==
    /\ apc = "calling"
    /\ \E outcome \in {"accepted", "status", "error"} :
          /\ fleet' = IF outcome = "accepted" THEN held ELSE fleet
          /\ instances' = IF outcome = "accepted" THEN held ELSE instances
          /\ lastResult' = outcome
    /\ apc' = "recv"
    /\ UNCHANGED << config, clock, held, applied, emitted, readOk, emittedAt,
                    probe >>
    /\ UNCHANGED << lastScaleTime, samples, dpc, n, desiredInstances, now,
                    ready, wakeAt, ticks, pushed >>

\* updateNumInstances repeating the request after a failure
ResizeReturnsRetry ==
    /\ apc = "calling"
    /\ \E outcome \in {"accepted", "status", "error"} :
          /\ fleet' = IF outcome = "accepted" THEN held ELSE fleet
          /\ lastResult' = outcome
          /\ apc' = IF outcome = "accepted" THEN "recv" ELSE "got"
    /\ UNCHANGED << config, clock, held, applied, emitted, readOk, emittedAt,
                    probe >>
    /\ UNCHANGED decisionVars

\* updateNumInstances setting autoscaler.instances back to the fleet size
\* after a failure
ResizeReturnsRollback ==
    /\ apc = "calling"
    /\ \E outcome \in {"accepted", "status", "error"} :
          /\ fleet' = IF outcome = "accepted" THEN held ELSE fleet
          /\ instances' = IF outcome = "accepted" THEN instances ELSE fleet
          /\ lastResult' = outcome
    /\ apc' = "recv"
    /\ UNCHANGED << config, clock, held, applied, emitted, readOk, emittedAt,
                    probe >>
    /\ UNCHANGED << lastScaleTime, samples, dpc, n, desiredInstances, now,
                    ready, wakeAt, ticks, pushed >>

\* updateNumInstances ending the actuation task on a transport error
ResizeReturnsFatal ==
    /\ apc = "calling"
    /\ \E outcome \in {"accepted", "status", "error"} :
          /\ fleet' = IF outcome = "accepted" THEN held ELSE fleet
          /\ lastResult' = outcome
          /\ apc' = IF outcome = "error" THEN "exit" ELSE "recv"
    /\ UNCHANGED << config, clock, held, applied, emitted, readOk, emittedAt,
                    probe >>
    /\ UNCHANGED decisionVars

\* renderAPICall returning: 202 Accepted, another status, or a transport error
ResizeReturns ==
    /\ apc = "calling"
    /\ \E outcome \in {"accepted", "status", "error"} :
          /\ fleet' = IF outcome = "accepted" THEN held ELSE fleet
          /\ lastResult' = outcome
    /\ apc' = "recv"
    /\ UNCHANGED << config, clock, held, applied, emitted, readOk, emittedAt,
                    probe >>
    /\ UNCHANGED decisionVars

(* -------------------------------- time --------------------------------- *)
Advance ==
    /\ clock < MaxTime
    /\ clock' = clock + 1
    /\ UNCHANGED << config, emitted, readOk, emittedAt, probe >>
    /\ UNCHANGED decisionVars
    /\ UNCHANGED actuationVars

(* ------------------------------ sampler -------------------------------- *)
\* line 117 run on its own: one sample of a backend under a failure pattern
Sample ==
    /\ \E b \in Backends, f \in FailurePatterns :
          probe' = [ran |-> TRUE, backend |-> b, failures |-> f,
                    jobs |-> sampleOf(b, f)]
    /\ UNCHANGED << config, clock, emitted, readOk, emittedAt >>
    /\ UNCHANGED decisionVars
    /\ UNCHANGED actuationVars

Next ==
    \/ Calc
    \/ Handoff
    \/ RecordScale
    \/ Wake
    \/ CallResize
    \/ ResizeReturns
    \/ Advance

Spec == Init /\ [][Next]_vars

\* One configuration, with the actuation task scheduled and every resize
\* call returning.
FairInit ==
    /\ Init
    /\ config.NumSamples = 1
    /\ config.WorkersPerInstance = 1
    /\ config.ScaleUpDelay < config.ScaleDownDelay

FairSpec ==
    /\ FairInit
    /\ [][Next]_vars
    /\ WF_vars(CallResize)
    /\ WF_vars(ResizeReturns)

\* One configuration, with both tasks scheduled, every backend query and
\* every resize call returning, and time passing.
LiveSpec ==
    /\ FairInit
    /\ [][Next]_vars
    /\ WF_vars(Calc)
    /\ WF_vars(Handoff)
    /\ WF_vars(RecordScale)
    /\ WF_vars(Wake)
    /\ WF_vars(CallResize)
    /\ WF_vars(ResizeReturns)
    /\ WF_vars(Advance)

\* The sampler alone, over every backend and failure pattern.
SamplerSpec == FairInit /\ [][Sample]_vars

(* ======================================================================= *)
(*                               Claims                                    *)
(* ======================================================================= *)
InBounds(x) == config.MinInstances <= x /\ x <= config.MaxInstances

\* the decision task has finished calculateDesiredInstances of a ready tick
\* and has not yet executed lines 109-110
Decided == ready /\ dpc \in {"send", "sleep"}

\* C1: every count the decision task sends on the channel, completed or
\* pending, lies in [MinInstances, MaxInstances], whatever the seed.
C1_EmittedWithinBounds ==
    /\ \A i \in 1..Len(emitted) : InBounds(emitted[i])
    /\ dpc = "send" => InBounds(n)

\* C1 witness: a raw desired count above MaxInstances (one sample of 4 with
\* one worker per instance) was emitted as exactly MaxInstances.
C1_Witness ==
    /\ config.NumSamples = 1 /\ config.WorkersPerInstance = 1
    /\ Len(emitted) >= 1 /\ emitted[1] = config.MaxInstances
    /\ pushed[1] > config.MaxInstances

\* C2: a ready tick whose desired count is above the current count before
\* lastScaleTime + ScaleUpDelay, or below it before lastScaleTime +
\* ScaleDownDelay, emits nothing.
C2_SuppressedBeforeDelay ==
    Decided =>
        /\ (desiredInstances > instances
              /\ now < lastScaleTime + config.ScaleUpDelay) => dpc # "send"
        /\ (desiredInstances < instances
              /\ now < lastScaleTime + config.ScaleDownDelay) => dpc # "send"

\* C2 witness: after a scaling event, a tick inside the scale-down delay
\* wants fewer instances and goes to sleep without sending.
C2_Witness ==
    /\ Decided /\ dpc = "sleep"
    /\ Len(emitted) >= 1
    /\ desiredInstances < instances
    /\ now < lastScaleTime + config.ScaleDownDelay

\* C3: a ready tick whose desired count differs from the current count emits
\* exactly when now >= lastScaleTime + delay of its direction, equality
\* included.
C3_EmitsFromDelayOn ==
    Decided =>
        /\ desiredInstances > instances =>
              (dpc = "send" <=> now >= lastScaleTime + config.ScaleUpDelay)
        /\ desiredInstances < instances =>
              (dpc = "send" <=> now >= lastScaleTime + config.ScaleDownDelay)

\* C4: instances and lastScaleTime change only in the step that follows a
\* completed send of a count different from instances, and a tick whose
\* desired count equals instances never sends.
C4_ChangeOnlyOnEmission ==
    /\ [](dpc = "send" => ready /\ desiredInstances # instances /\ n = desiredInstances)
    /\ [][ (instances' # instances \/ lastScaleTime' # lastScaleTime) =>
             /\ dpc = "record" /\ n # instances
             /\ Len(emitted) >= 1 /\ emitted[Len(emitted)] = n
             /\ instances' = n /\ lastScaleTime' = clock ]_vars

\* C4 witness: a hysteresis-suppressed tick after a scaling event; instances
\* and lastScaleTime still carry the values of that event.
C4_Witness ==
    /\ Decided /\ dpc = "sleep"
    /\ desiredInstances # instances
    /\ Len(emitted) >= 1 /\ instances = emitted[Len(emitted)]
    /\ lastScaleTime < now

\* the last k entries of xs
LastK(xs, k) == SubSeq(xs, Len(xs) - k + 1, Len(xs))

Min2(a, b) == IF a < b THEN a ELSE b

\* the least integer r with r >= num/den, found by search
LeastIntAtLeast(num, den) ==
    CHOOSE r \in 0..num : r * den >= num /\ \A q \in 0..num : q * den >= num => r <= q

\* x constrained to [MinInstances, MaxInstances]
Clamped(x) ==
    IF x < config.MinInstances THEN config.MinInstances
    ELSE IF x > config.MaxInstances THEN config.MaxInstances
    ELSE x

\* C5: the first NumSamples-1 ticks are not ready, return the current
\* instance count and emit nothing; from the NumSamples-th tick on every tick
\* is ready and its desired count is that of the average of the last
\* NumSamples samples.
C5_ReadyFromNumSamples ==
    ticks >= 1 =>
        /\ ready <=> ticks >= config.NumSamples
        /\ ~ready => /\ n = instances
                     /\ dpc # "send"
                     /\ emitted = << >>
        /\ ready =>
              LET w == LastK(pushed, config.NumSamples)
              IN  desiredInstances =
                     Clamped(LeastIntAtLeast(SumSeq(w), Len(w) * config.WorkersPerInstance))

\* C5 witness: with NumSamples = 2 the first tick saw a backlog far above
\* the current count, was not ready and emitted nothing.
C5_Witness ==
    /\ config.NumSamples = 2 /\ config.WorkersPerInstance = 1
    /\ ticks = 1 /\ ~ready
    /\ pushed = << 4 >> /\ instances = 2
    /\ dpc = "sleep" /\ emitted = << >>

\* C6: after the k-th tick the window is the last min(k, NumSamples) samples
\* in arrival order.
C6_WindowIsLastSamples ==
    /\ Len(pushed) = ticks
    /\ samples = LastK(pushed, Min2(ticks, config.NumSamples))
    /\ Len(samples) <= config.NumSamples

\* C6 witness: more ticks than NumSamples, the oldest sample evicted.
C6_Witness ==
    /\ config.NumSamples = 2
    /\ ticks = 3
    /\ pushed = << 0, 1, 2 >>
    /\ samples = << 1, 2 >>

\* C7: on a ready tick the desired count is
\* clamp(ceil(sum(window) / (len(window) * WorkersPerInstance))), the mean
\* not being truncated before the ceiling.
C7_DesiredIsCeilOfExactMean ==
    ready =>
        desiredInstances =
            Clamped(LeastIntAtLeast(SumSeq(samples),
                                    Len(samples) * config.WorkersPerInstance))

\* C7 witness: window [2,3] with one worker per instance has mean 5/2,
\* whose ceiling 3 differs from the ceiling of the truncated mean 2.
C7_Witness ==
    /\ ready
    /\ samples = << 2, 3 >>
    /\ config.WorkersPerInstance = 1
    /\ desiredInstances = 3

\* C8 as stated: there is no reachable state in which the decision task is
\* waiting on the actuation task.
C8_NeverWaitsOnActuation == ~(dpc = "send" /\ apc # "recv")

\* C8 amended: the decision task waits on the actuation task only at the
\* channel send of a count different from instances; everywhere else its next
\* step is enabled whatever the actuation task is doing, and the send itself
\* is enabled as soon as the actuation task is back at its receive.
C8_WaitsOnlyAtSend ==
    /\ dpc = "send" => n # instances
    /\ dpc = "calc" => ENABLED Calc
    /\ dpc = "record" => ENABLED RecordScale
    /\ (dpc = "sleep" /\ clock >= wakeAt) => ENABLED Wake
    /\ (dpc = "send" /\ apc = "recv") => ENABLED Handoff

\* C8 witness: the decision task is at its send while a resize call for the
\* previous count is still in flight.
C8_Witness ==
    /\ dpc = "send" /\ apc = "calling"
    /\ Len(emitted) >= 1 /\ n # emitted[Len(emitted)]

\* C9: the counts passed to the resize call are always a prefix of the counts
\* emitted, at most one behind, and every emitted count is eventually passed
\* to the resize call.
C9_NoDecisionLost ==
    /\ [](/\ Len(applied) <= Len(emitted)
          /\ Len(emitted) <= Len(applied) + 1
          /\ applied = SubSeq(emitted, 1, Len(applied)))
    /\ (Len(applied) < Len(emitted)) ~> (applied = emitted)

\* C9 witness: two decisions were emitted and both were passed to the resize
\* call in the order of emission.
C9_Witness ==
    /\ Len(emitted) = 2
    /\ applied = emitted
    /\ apc = "recv"

\* C10 as stated: until the first emission instances is the live fleet size
\* whenever the startup read succeeded, a live size of 0 included.
C10_SeedIsLiveSize ==
    emitted = << >> =>
        instances = IF readOk THEN fleet ELSE config.MinInstances

\* C10 amended: until the first emission instances is the live fleet size
\* when the startup read succeeded and reported a positive size, and
\* MinInstances when the read failed or reported 0.
C10_SeedIsPositiveLiveSizeOrMin ==
    emitted = << >> =>
        instances = IF readOk /\ fleet > 0 THEN fleet ELSE config.MinInstances

\* C10 witness: a readable live size above MaxInstances is the seed, and the
\* first tick has run with it.
C10_Witness ==
    /\ emitted = << >> /\ ticks >= 1
    /\ readOk /\ fleet > config.MaxInstances
    /\ instances = fleet

\* a resize call that ended with a non-success status or a transport error
Failed == lastResult \in {"status", "error"}

\* C11: every step of the actuation task (receiving a count, issuing the
\* resize call, the call returning with any outcome) leaves instances,
\* lastScaleTime and samples unchanged.
C11_ActuationLeavesControllerState ==
    [][ apc' # apc => UNCHANGED << instances, lastScaleTime, samples >> ]_vars

\* C11 witness: a resize call has failed in transport while the decision
\* task had not yet run lines 109-110 for that count.
C11_Witness ==
    /\ lastResult = "error" /\ apc = "recv"
    /\ dpc = "record" /\ n = held /\ instances # held

\* the delay that gates the i-th emitted count, by its direction
DelayOf(i) ==
    IF emitted[i] > emitted[i - 1] THEN config.ScaleUpDelay
    ELSE config.ScaleDownDelay

TrueTotal(b) ==
    Cardinality(b.workers \cap b.leased) + SumOver(b.qlen, b.queues)

NoFailure(f) ==
    /\ ~f.workersErr /\ f.getErr = {}
    /\ ~f.queuesErr /\ f.llenErr = {}

\* C13: the sample is (known workers whose lease key is present) + (sum of
\* the lengths of the registered queues) when no query fails, and under any
\* failure pattern a non-negative integer that is at most that total.
C13_SampleUndercountsOnFailure ==
    probe.ran =>
        /\ probe.jobs \in Nat
        /\ probe.jobs \in Samples
        /\ probe.jobs <= TrueTotal(probe.backend)
        /\ NoFailure(probe.failures) => probe.jobs = TrueTotal(probe.backend)

\* C13 witness: the Get of a leased worker fails while the queue holds three
\* jobs: the sample is 3 of a true total of 4.
C13_Witness ==
    /\ probe.ran
    /\ probe.failures.getErr # {} /\ ~probe.failures.queuesErr
    /\ probe.failures.llenErr = {}
    /\ TrueTotal(probe.backend) = 4
    /\ probe.jobs = 3

\* C14: a count is sent only if it differs from instances at that moment:
\* the pending and the just completed send differ from instances (for the
\* first send, from the seed), and no two consecutive emitted counts are
\* equal.
C14_EmittedDiffersFromCurrent ==
    /\ dpc = "send" => n # instances
    /\ dpc = "record" =>
          /\ Len(emitted) >= 1
          /\ emitted[Len(emitted)] # instances
          /\ Len(emitted) >= 2 => instances = emitted[Len(emitted) - 1]
    /\ \A i \in 1..(Len(emitted) - 1) : emitted[i] # emitted[i + 1]

\* C14 witness: a second count has just been sent; it differs from the
\* first, which instances still holds.
C14_Witness ==
    /\ dpc = "record"
    /\ Len(emitted) = 2
    /\ instances = emitted[1]
    /\ emitted[2] # emitted[1]

\* the latest resize call failed, nothing was emitted since, and lines
\* 109-110 have run for its count
Desync ==
    /\ Failed /\ apc = "recv"
    /\ applied = emitted
    /\ dpc \in {"calc", "sleep"}

\* C15: a failed resize call is neither retried nor rolled back: there is at
\* most one resize call per emitted count; the failing return changes neither
\* instances nor lastScaleTime, which hold the values set for the failed
\* count; and a tick whose desired count equals that count issues no call
\* and leaves the fleet as it is.
C15_FailureNotRetriedNorRolledBack ==
    /\ [](Len(applied) <= Len(emitted))
    /\ []((Failed /\ apc = "recv" /\ dpc # "record") =>
              /\ instances = held
              /\ lastScaleTime >= emittedAt[Len(emittedAt)])
    /\ [][ (apc = "calling" /\ apc' # apc /\ lastResult' \in {"status", "error"}) =>
              /\ apc' = "recv"
              /\ UNCHANGED << instances, lastScaleTime, applied, fleet >> ]_vars
    /\ [][ (Desync /\ ticks' = ticks + 1
                   /\ (~ready' \/ desiredInstances' = instances)) =>
              /\ Desync' /\ dpc' = "sleep"
              /\ UNCHANGED << instances, lastScaleTime, applied, emitted, fleet >> ]_vars

\* C15 witness: the resize call for the only emitted count failed, a later
\* tick wanted that same count and issued nothing; instances differs from the
\* fleet size.
C15_Witness ==
    /\ Desync /\ dpc = "sleep"
    /\ Len(emitted) = 1 /\ instances = emitted[1]
    /\ ticks >= 2 /\ ready /\ desiredInstances = instances
    /\ fleet # instances

\* C16 as stated: whenever the actuation task holds or is applying a
\* received count, instances already equals it.
C16_UpdatedBeforeHandoff ==
    apc \in {"got", "calling"} => instances = held

\* C16 amended: instances and lastScaleTime are updated right after the
\* hand-off, not before it: whenever a count has been received, by the
\* actuation task (held, being applied, or its call returned, failures
\* included), either instances equals the latest received count and
\* lastScaleTime is not earlier than its hand-off, or the decision task stands
\* between the completed send and lines 109-110 with that count in n.
C16_UpdatedRightAfterHandoff ==
    Len(emitted) >= 1 =>
        /\ held = emitted[Len(emitted)]
        /\ \/ /\ dpc # "record"
              /\ instances = held
              /\ lastScaleTime >= emittedAt[Len(emittedAt)]
           \/ /\ dpc = "record"
              /\ n = held
              /\ instances # held

\* C16 witness: the resize call for a received count has failed while the
\* decision task has still to run lines 109-110: instances is the old count.
C16_Witness ==
    /\ Failed /\ apc = "recv"
    /\ dpc = "record" /\ n = held
    /\ applied = emitted /\ Len(emitted) = 1
    /\ instances # held

\* C17: no error ends a task: the actuation task always comes back to its
\* receive, every tick of the decision task reaches its sleep, and every
\* sleep that ends within the model's clock is followed by the next tick.
C17_TasksNeverTerminate ==
    /\ []<>(apc = "recv")
    /\ (dpc \in {"calc", "send", "record"}) ~> (dpc = "sleep")
    /\ (dpc = "sleep" /\ wakeAt <= MaxTime) ~> (dpc = "calc")

\* C17 witness: after a sample of 0 (as every backend query failing gives)
\* and a resize call failed in transport, the actuation task is back at its
\* receive and the decision task has ticked again.
C17_Witness ==
    /\ lastResult = "error" /\ apc = "recv"
    /\ ticks = 3 /\ pushed[1] = 0
    /\ dpc = "sleep"

\* C18: until the first emission lastScaleTime is the zero time, so the
\* first ready tick whose desired count differs from the seed sends it, in
\* either direction and however early; once lines 109-110 have run,
\* instances equals it.
C18_FirstDecisionNotSuppressed ==
    /\ emitted = << >> => lastScaleTime = ZeroTime
    /\ (emitted = << >> /\ Decided /\ desiredInstances # instances) =>
          /\ dpc = "send"
          /\ n = desiredInstances
    /\ (Len(emitted) = 1 /\ dpc # "record") => instances = emitted[1]

\* C18 witness: NumSamples = 1, one worker per instance, seed 2, first sample
\* 3: 3 was emitted at the very first tick, at clock 0, and instances is 3.
C18_Witness ==
    /\ config.NumSamples = 1 /\ config.WorkersPerInstance = 1
    /\ pushed = << 3 >> /\ emitted = << 3 >> /\ emittedAt = << 0 >>
    /\ instances = 3 /\ lastScaleTime = 0
    /\ readOk /\ fleet = 2 /\ apc = "got"

\* the delay that applies to moving from instances to d has elapsed at the
\* time of the last decision
DelayElapsed(d) ==
    \/ d > instances /\ After(now, lastScaleTime + config.ScaleUpDelay)
    \/ d < instances /\ After(now, lastScaleTime + config.ScaleDownDelay)

\* the clock bound ends the run: no further tick, and at the last one the
\* delay for d had not yet elapsed
HorizonBeforeDelay(d) ==
    /\ dpc = "sleep" /\ wakeAt > MaxTime
    /\ ~DelayElapsed(d)

\* the counts a clamped desired value can take
DesiredCounts == UNION {c.MinInstances..c.MaxInstances : c \in Configs}

\* C19: with both tasks running and time passing, a tick whose desired count
\* is d leads to instances = d with the decision task asleep, unless a later
\* tick yields another desired count or the clock bound ends the run before
\* the delay has elapsed; and a tick whose desired count equals instances
\* emits nothing and goes to sleep, so instances stays d as long as the
\* samples keep yielding d.
C19_Converges ==
    /\ \A d \in DesiredCounts :
          (Decided /\ desiredInstances = d) ~>
              \/ instances = d /\ dpc = "sleep"
              \/ Decided /\ desiredInstances # d
              \/ HorizonBeforeDelay(d)
    /\ [][(ticks' = ticks + 1 /\ ready' /\ desiredInstances' = instances) =>
              (dpc' = "sleep" /\ emitted' = emitted /\ instances' = instances)]_vars

\* C19 witness: the seed 1 lies below MinInstances = 2 and is corrected to 2
\* at the first tick; from the second tick on every sample yields 3, which is
\* suppressed at clock 1, emitted at clock 2, and instances is 3.
C19_Witness ==
    /\ readOk /\ fleet = 1
    /\ pushed = << 0, 3, 3 >>
    /\ emitted = << 2, 3 >> /\ emittedAt = << 0, 2 >>
    /\ instances = 3 /\ desiredInstances = 3 /\ dpc = "sleep"

====
